---- MODULE Spec2Model ----
(***************************************************************************)
(* A model of weloce: the compiler (compile_wasm / BytecodeBuilder) that   *)
(* turns a parsed module into a Bytecode, the host import registry         *)
(* (Imports), and the recursive stack interpreter (Vm).                    *)
(*                                                                         *)
(* The program is single threaded.  The recursion of Vm::execute_fn is     *)
(* unfolded into an explicit sequence of activations (frames); one action  *)
(* executes one instruction of the innermost activation.  A Rust panic     *)
(* (unwrap on None, index out of bounds, todo!, arithmetic overflow)       *)
(* aborts the program: status becomes "panicked" and nothing runs after.   *)
(***************************************************************************)
EXTENDS Integers, Sequences, FiniteSets, TLC

\* ------------------------------------------------------------------ bounds
\* registrations (Imports::add_import calls) the host performs
MaxRegs == 2
\* top-level Vm::run invocations
MaxRuns == 2
\* Vm instances created
MaxVms == 2
\* nested activations before the thread's call stack is exhausted
MaxDepth == 3
\* add_import calls of a registry filled in any order
MaxRegistrations == 3

\* ------------------------------------------------------------- value model
MaxI32 == 2147483647
MinI32 == (-MaxI32) - 1

Abs(x) == IF x < 0 THEN -x ELSE x

I32 == "I32"
I64 == "I64"

\* FuncType::new
FuncType(params, returns) == [params |-> params, returns |-> returns]

\* Value::new
Value(val_type, value) == [val_type |-> val_type, value |-> value]

\* enum Return
RetVoid == [shape |-> "Void", values |-> <<>>]
RetSingle(v) == [shape |-> "Single", values |-> <<v>>]
RetMultiple(vs) == [shape |-> "Multiple", values |-> vs]

\* ------------------------------------------------- 32-bit signed arithmetic
\* a + b leaves the i32 range
AddOverflows(a, b) ==
    \/ b > 0 /\ a > MaxI32 - b
    \/ b < 0 /\ a < MinI32 - b

\* i32::wrapping_add
WrappingAdd(a, b) ==
    IF b > 0 /\ a > MaxI32 - b THEN (a - MaxI32 - 1) + (b + MinI32)
    ELSE IF b < 0 /\ a < MinI32 - b THEN (a - MinI32) + (b + MaxI32 + 1)
    ELSE a + b

\* a - b leaves the i32 range
SubOverflows(a, b) ==
    \/ b < 0 /\ a > MaxI32 + b
    \/ b > 0 /\ a < MinI32 + b

\* i32::wrapping_sub
WrappingSub(a, b) ==
    IF b < 0 /\ a > MaxI32 + b THEN (a - MaxI32 - 1) + (MinI32 - b)
    ELSE IF b > 0 /\ a < MinI32 + b THEN (a - MinI32) + ((MaxI32 - b) + 1)
    ELSE a - b

\* |a| * |b| > 2^31, for a and b other than MinI32 and 0
MagProductExceeds(x, y, limitIsMin) ==
    LET q == MaxI32 \div y
        r == MaxI32 % y
    IN  IF limitIsMin THEN ~(x <= q \/ (x = q + 1 /\ r = y - 1))
        ELSE x > q

\* a * b leaves the i32 range
MulOverflows(a, b) ==
    IF a = 0 \/ b = 0 THEN FALSE
    ELSE IF a = MinI32 THEN b # 1
    ELSE IF b = MinI32 THEN a # 1
    ELSE MagProductExceeds(Abs(a), Abs(b), (a < 0) # (b < 0))

RECURSIVE MulBits(_, _, _)
\* shift-and-add over the n low bits of b, every step wrapping (the doubled
\* value and the partial product are bound, so each is computed once)
MulBits(a, b, n) ==
    IF n = 0 THEN 0
    ELSE CHOOSE product \in
             {WrappingAdd(IF b % 2 = 1 THEN a ELSE 0, rest) :
                  rest \in {MulBits(doubled, b \div 2, n - 1) :
                               doubled \in {WrappingAdd(a, a)}}} : TRUE

\* i32::wrapping_mul
WrappingMul(a, b) == MulBits(a, b, 32)

\* 2^31 \div y and 2^31 % y for 0 < y <= MaxI32
MinMagDiv(y) == (MaxI32 \div y) + (IF MaxI32 % y = y - 1 THEN 1 ELSE 0)
MinMagRem(y) == ((MaxI32 % y) + 1) % y

\* a / b of Rust (truncating), for b # 0 and not (a = MinI32 and b = -1)
TruncDiv(a, b) ==
    IF b = MinI32 THEN (IF a = MinI32 THEN 1 ELSE 0)
    ELSE IF a = MinI32 THEN (IF b > 0 THEN -MinMagDiv(b) ELSE MinMagDiv(-b))
    ELSE IF (a < 0) = (b < 0) THEN Abs(a) \div Abs(b)
    ELSE -(Abs(a) \div Abs(b))

\* a % b of Rust (sign of the dividend), same domain
TruncRem(a, b) ==
    IF b = MinI32 THEN (IF a = MinI32 THEN 0 ELSE a)
    ELSE IF a = MinI32 THEN -MinMagRem(Abs(b))
    ELSE IF a < 0 THEN -(Abs(a) % Abs(b))
    ELSE a % Abs(b)

BitAnd(x, y) == IF x = 1 /\ y = 1 THEN 1 ELSE 0
BitOr(x, y) == IF x = 1 \/ y = 1 THEN 1 ELSE 0
BitXor(x, y) == IF x # y THEN 1 ELSE 0

RECURSIVE Bitwise(_, _, _, _)
\* two's-complement bitwise combination over n bits; the last bit is the sign
Bitwise(kind, a, b, n) ==
    LET bit == CASE kind = "and" -> BitAnd(a % 2, b % 2)
                 [] kind = "or" -> BitOr(a % 2, b % 2)
                 [] OTHER -> BitXor(a % 2, b % 2)
    IN  IF n = 1 THEN -bit
        ELSE CHOOSE combined \in
                 {bit + 2 * Bitwise(kind, halves[1], halves[2], n - 1) :
                      halves \in {<<a \div 2, b \div 2>>}} : TRUE

RECURSIVE ShlBy(_, _)
\* a << k with the bits shifted out discarded, 0 <= k < 32
ShlBy(a, k) ==
    IF k = 0 THEN a
    ELSE CHOOSE shifted \in
             {ShlBy(doubled, k - 1) : doubled \in {WrappingAdd(a, a)}} : TRUE

\* ------------------------------------------------------------ instructions
\* enum Instruction, and the decoded operators it is translated from
Ins(op, arg) == [op |-> op, arg |-> arg]

\* the operators From<wasmparser::Operator> has an arm for
TranslatedOperators ==
    {"I32Add", "I32Sub", "I32Mul", "I32Const", "LocalGet", "LocalSet",
     "End", "Return", "Call"}

\* From<wasmparser::Operator> for Instruction: ok is FALSE on the todo! arm
FromOperator(operator) ==
    IF operator.op \in TranslatedOperators
    THEN [ok |-> TRUE, ins |-> Ins(operator.op, operator.arg)]
    ELSE [ok |-> FALSE, ins |-> Ins("End", 0)]

\* Option<T>
None == <<>>
Some(x) == <<x>>
IsSome(o) == Len(o) = 1
UnwrapOr(o, d) == IF Len(o) = 1 THEN o[1] ELSE d

\* Vec::get with a 0-based index
VecGet(vec, index) ==
    IF index >= 0 /\ index < Len(vec) THEN Some(vec[index + 1]) ELSE None

\* HashMap::insert and HashMap::get
MapInsert(map, key, val) ==
    [k \in (DOMAIN map) \cup {key} |-> IF k = key THEN val ELSE map[k]]
MapGet(map, key) == IF key \in DOMAIN map THEN Some(map[key]) ELSE None
EmptyMap == [k \in {} |-> 0]

\* ---------------------------------------------------------------- functions
\* Function::new with FunctKind::Import{index}
ImportFunction(func_type, index) ==
    [func_type |-> func_type, kind |-> "Import", index |-> index,
     locals |-> <<>>, body |-> <<>>]

\* Function::new with FunctKind::Definition(FunctionDefinition::new())
DefinedFunction(func_type) ==
    [func_type |-> func_type, kind |-> "Definition", index |-> 0,
     locals |-> <<>>, body |-> <<>>]

\* ------------------------------------------------------------ host callbacks
\* A callback is a closure: cb.kind names its code, cb.n its captured state.
Closure(kind) == [kind |-> kind, n |-> 0]

\* Calling the boxed FnMut: [ok, ret, cb], cb the closure after the call
CallClosure(cb, args) ==
    CASE cb.kind = "const42" ->
            [ok |-> TRUE, ret |-> RetSingle(Value(I32, 42)), cb |-> cb]
      [] cb.kind = "void" ->
            [ok |-> TRUE, ret |-> RetVoid, cb |-> cb]
      [] cb.kind = "fail" ->
            [ok |-> FALSE, ret |-> RetVoid, cb |-> cb]
      [] cb.kind = "counter" ->
            [ok |-> TRUE, ret |-> RetSingle(Value(I32, cb.n)),
             cb |-> [cb EXCEPT !.n = cb.n + 1]]
      [] cb.kind = "pair" ->
            [ok |-> TRUE,
             ret |-> RetMultiple(<<Value(I32, 1), Value(I64, 2)>>), cb |-> cb]
      [] cb.kind = "once" ->  \* answers its first call, fails from then on
            [ok |-> cb.n = 0, ret |-> IF cb.n = 0 THEN RetSingle(Value(I32, 9)) ELSE RetVoid,
             cb |-> [cb EXCEPT !.n = 1]]
      [] OTHER ->  \* "first": its first argument
            [ok |-> TRUE,
             ret |-> IF Len(args) >= 1 THEN RetSingle(args[1]) ELSE RetVoid,
             cb |-> cb]

\* ------------------------------------------------------------------ inputs
\* What the host registers: the arguments of Imports::add_import.
Registration(module, name, params, returns, kind) ==
    [module |-> module, name |-> name,
     func_type |-> FuncType(params, returns), import_fn |-> Closure(kind)]

Registrations ==
    { Registration("env", "get_number", <<>>, <<I32>>, k) :
          k \in {"const42", "void", "fail", "counter", "pair", "once"} }
    \cup { Registration("env", "first", <<I32, I64>>, <<I32>>, "first"),
           Registration("env", "pair", <<>>, <<I32, I32>>, "pair") }

\* The type section every input module carries (type index i is Types[i+1]).
Types ==
    << FuncType(<<>>, <<I32>>),          \* 0
       FuncType(<<I32>>, <<I32>>),       \* 1
       FuncType(<<>>, <<>>),             \* 2
       FuncType(<<I32, I64>>, <<I32>>),  \* 3
       FuncType(<<>>, <<I32, I32>>),     \* 4
       FuncType(<<I64, I32>>, <<I32>>) >>  \* 5

\* One past the last type index: a reference the type section does not hold.
BadType == Len(Types)

ImportOf(name, ty) == [module |-> "env", name |-> name, kind |-> "Func", index |-> ty]
ExportOf(name, kind, index) == [name |-> name, kind |-> kind, index |-> index]
CodeOf(locals, ops) == [locals |-> locals, ops |-> ops]

\* The payloads the parser yields for one module, in the sections' order.
Module(imports_, funcs, exports_, code) ==
    [types |-> Types, imports |-> imports_, funcs |-> funcs,
     exports |-> exports_, code |-> code]

GetNumber == ImportOf("get_number", 0)
FExport == ExportOf("f", "Function", 0)

\* examples/simple.rs: add_five_to_imported calls env.get_number and adds 5
ModSimple ==
    Module(<<GetNumber>>, <<0>>,
           <<ExportOf("add_five_to_imported", "Function", 1),
             ExportOf("memory", "Memory", 1),
             ExportOf("g", "Function", 0),
             ExportOf("table", "Table", 7)>>,
           <<CodeOf(<<>>, <<Ins("Call", 0), Ins("I32Const", 5), Ins("I32Add", 0),
                           Ins("End", 0)>>)>>)

\* one function and no import, exported as "f"
ModBody(ty, locals, ops) ==
    Module(<<>>, <<ty>>, <<FExport>>, <<CodeOf(locals, ops)>>)

\* one import (function 0) and one function (function 1, exported as "f");
\* the import itself is exported as "g"
ModWithImport(imp, ty, locals, ops) ==
    Module(<<imp>>, <<ty>>,
           <<ExportOf("f", "Function", 1), ExportOf("g", "Function", 0)>>,
           <<CodeOf(locals, ops)>>)

AddFive == <<Ins("LocalGet", 0), Ins("I32Const", 5), Ins("I32Add", 0), Ins("End", 0)>>

Binary(a, b, op) == <<Ins("I32Const", a), Ins("I32Const", b), Ins(op, 0), Ins("End", 0)>>

Modules ==
    { ModSimple,
      \* (I32) -> I32 reading local 0, without and with a declared local
      ModWithImport(GetNumber, 1, <<>>, AddFive),
      ModWithImport(GetNumber, 1, <<<<1, I32>>>>, AddFive),
      \* locals written and read back; two runs of locals
      ModBody(0, <<<<1, I32>>, <<2, I64>>>>,
              <<Ins("I32Const", 9), Ins("LocalSet", 2), Ins("LocalGet", 2),
                Ins("LocalGet", 0), Ins("I32Add", 0), Ins("End", 0)>>),
      \* a local set before a call of the import and read after it
      ModWithImport(GetNumber, 0, <<<<1, I32>>>>,
                    <<Ins("I32Const", 9), Ins("LocalSet", 0), Ins("Call", 0),
                      Ins("LocalGet", 0), Ins("I32Add", 0), Ins("End", 0)>>),
      \* a function that counts in its local and then calls itself
      ModBody(2, <<<<1, I32>>>>,
              <<Ins("LocalGet", 0), Ins("I32Const", 1), Ins("I32Add", 0),
                Ins("LocalSet", 0), Ins("Call", 0), Ins("End", 0)>>),
      \* a () -> () body that leaves a value on the stack
      ModBody(2, <<>>, <<Ins("I32Const", 3), Ins("End", 0)>>),
      \* a body that pushes nothing for its declared result
      ModBody(0, <<>>, <<Ins("End", 0)>>),
      \* a body that leaves one value too many
      ModBody(0, <<>>, <<Ins("I32Const", 3), Ins("I32Const", 4), Ins("End", 0)>>),
      \* the caller's value under a call of the import
      ModWithImport(GetNumber, 0, <<>>,
                    <<Ins("I32Const", 7), Ins("Call", 0), Ins("End", 0)>>),
      ModWithImport(GetNumber, 0, <<>>,
                    <<Ins("I32Const", 7), Ins("Call", 0), Ins("I32Add", 0),
                      Ins("End", 0)>>),
      \* unimplemented instructions
      ModBody(0, <<>>, <<Ins("I32Const", 1), Ins("Return", 0), Ins("I32Const", 2),
                        Ins("End", 0)>>),
      ModBody(0, <<>>, <<Ins("GlobalGet", 0), Ins("End", 0)>>),
      ModBody(2, <<>>, <<Ins("I32Const", 1), Ins("GlobalSet", 0), Ins("End", 0)>>),
      ModBody(0, <<>>, Binary(7, 2, "I32DivS")),
      \* arithmetic
      ModBody(0, <<>>, Binary(2, 3, "I32Add")),
      ModBody(0, <<>>, Binary(MaxI32, 1, "I32Add")),
      ModBody(0, <<>>, Binary(MinI32, 1, "I32Sub")),
      ModBody(0, <<>>, Binary(65536, 65536, "I32Mul")),
      ModBody(0, <<>>, Binary(-6, 7, "I32Mul")),
      \* a function that calls the import and then itself
      ModWithImport(GetNumber, 2, <<>>,
                    <<Ins("Call", 0), Ins("Call", 1), Ins("End", 0)>>),
      \* a function that calls itself, and a call of a function that is not there
      ModBody(2, <<>>, <<Ins("Call", 0), Ins("End", 0)>>),
      ModBody(2, <<>>, <<Ins("Call", 3), Ins("End", 0)>>),
      \* two functions, two code entries
      Module(<<GetNumber>>, <<0, 2>>, <<ExportOf("f", "Function", 1)>>,
             <<CodeOf(<<>>, <<Ins("I32Const", 1), Ins("End", 0)>>),
               CodeOf(<<>>, <<Ins("End", 0)>>)>>),
      \* imports only, in two orders
      Module(<<GetNumber, ImportOf("first", 3)>>, <<>>,
             <<ExportOf("g", "Function", 0), ExportOf("f", "Function", 1)>>, <<>>),
      Module(<<ImportOf("first", 3), GetNumber>>, <<>>,
             <<ExportOf("g", "Function", 1), ExportOf("f", "Function", 0)>>, <<>>),
      \* arguments and several results through imports
      ModWithImport(ImportOf("first", 3), 0, <<>>,
                    <<Ins("I32Const", 10), Ins("I32Const", 20), Ins("Call", 0),
                      Ins("End", 0)>>),
      ModWithImport(ImportOf("pair", 4), 4, <<>>, <<Ins("Call", 0), Ins("End", 0)>>),
      \* imports whose declared type differs from the registered one
      ModWithImport(ImportOf("get_number", 1), 0, <<>>, <<Ins("Call", 0), Ins("End", 0)>>),
      ModWithImport(ImportOf("first", 5), 0, <<>>, <<Ins("Call", 0), Ins("End", 0)>>),
      ModWithImport(ImportOf("pair", 0), 0, <<>>, <<Ins("Call", 0), Ins("End", 0)>>),
      \* type indices the type section does not hold
      ModWithImport(ImportOf("get_number", BadType), 0, <<>>, <<Ins("End", 0)>>),
      ModBody(BadType, <<>>, <<Ins("End", 0)>>),
      \* an import that is not a function
      ModWithImport([module |-> "env", name |-> "memory", kind |-> "Memory", index |-> 0],
                    0, <<>>, <<Ins("End", 0)>>) }

\* The names the host asks Vm::run for: the exported ones and one that is not
\* exported.
Names(bc) == (DOMAIN bc.exports) \cup {"missing"}

\* ------------------------------------------------------------------- state
VARIABLES
    status,           \* "running", or "panicked" once the program has aborted
    overflow_checks,  \* the build: TRUE with overflow checks (dev), FALSE without (release)
    imports,          \* Imports.imports: (module, name) -> Import{func_type, index}
    import_fns,       \* Imports.import_fns: the callbacks, by slot
    wasm,             \* the module handed to compile_wasm
    cstate,           \* where compile_wasm is: idle, a section, end, done
    cidx,             \* the next entry (from 1) of the section being read
    builder,          \* the BytecodeBuilder
    cresult,          \* what compile_wasm returned: none yet, Ok, or the error
    bytecode,         \* the Bytecode compile_wasm returned
    vms,              \* the Vm instances: vms[v] is the stack of Vm v
    inv,              \* the Vm::run in progress: its Vm, name and activations
    runs,             \* the Vm::run invocations so far, finished or not
    log,              \* one record per Vm::run that ended
    registered        \* the add_import calls so far, in order (their arguments)

vars == <<status, overflow_checks, imports, import_fns, wasm, cstate, cidx,
          builder, cresult, bytecode, vms, inv, runs, log, registered>>

registry_vars == <<imports, import_fns>>
compile_vars == <<wasm, cstate, cidx, builder, cresult, bytecode>>
vm_vars == <<vms, inv, runs, log>>

\* FuncTypeEq comparing the parameters only
FuncTypeEqParamsOnly(f, g) == f.params = g.params

\* PartialEq for FuncType (derived): both lists, element by element
FuncTypeEq(f, g) == f.params = g.params /\ f.returns = g.returns

\* ---------------------------------------------------------------- registry
\* Import::new
Import(func_type, index) == [func_type |-> func_type, index |-> index]

\* Imports::get_import
GetImport(imps, module, name) == MapGet(imps, <<module, name>>)

\* -------------------------------------------------------- BytecodeBuilder
\* BytecodeBuilder::new
BuilderNew ==
    [function_types |-> <<>>, functions |-> <<>>, exports |-> EmptyMap,
     first_function_index |-> None, current_function_index |-> 0]

\* BytecodeBuilder::add_function_type
AddFunctionType(b, func_type) ==
    [b EXCEPT !.function_types = Append(@, func_type)]

\* BytecodeBuilder::get_function_type
GetFunctionType(b, index) == VecGet(b.function_types, index)

\* BytecodeBuilder::add_import putting the record first
BuilderAddImportFirst(b, func_type, index) ==
    [b EXCEPT !.functions = <<ImportFunction(func_type, index)>> \o @]

\* BytecodeBuilder::add_import
BuilderAddImport(b, func_type, index) ==
    [b EXCEPT !.functions = Append(@, ImportFunction(func_type, index))]

\* BytecodeBuilder::add_function; ok is FALSE when function_types[ty_index] panics
AddFunction(b, ty_index) ==
    IF ty_index >= Len(b.function_types) THEN [ok |-> FALSE, b |-> b]
    ELSE [ok |-> TRUE,
          b |-> [b EXCEPT !.first_function_index = Some(Len(b.functions)),
                          !.functions = Append(@, DefinedFunction(
                                            b.function_types[ty_index + 1]))]]

\* BytecodeBuilder::add_export with Exports::add_export
AddExport(b, name, export) ==
    [b EXCEPT !.exports = MapInsert(@, name, export)]

\* the func_index of add_local and add_instruction
FuncIndex(b) == b.current_function_index + UnwrapOr(b.first_function_index, 0)

\* BytecodeBuilder::add_local with Function::add_local; ok is FALSE on a panic
\* (index out of bounds, or an Import record)
AddLocal(b, local) ==
    LET i == FuncIndex(b) IN
    IF i >= Len(b.functions) THEN [ok |-> FALSE, b |-> b]
    ELSE IF b.functions[i + 1].kind # "Definition" THEN [ok |-> FALSE, b |-> b]
    ELSE [ok |-> TRUE,
          b |-> [b EXCEPT !.functions[i + 1].locals = Append(@, local)]]

\* BytecodeBuilder::add_instruction with Function::add_instruction
AddInstruction(b, instruction) ==
    LET i == FuncIndex(b) IN
    IF i >= Len(b.functions) THEN [ok |-> FALSE, b |-> b]
    ELSE IF b.functions[i + 1].kind # "Definition" THEN [ok |-> FALSE, b |-> b]
    ELSE [ok |-> TRUE,
          b |-> [b EXCEPT !.functions[i + 1].body = Append(@, instruction)]]

\* BytecodeBuilder::next_function
NextFunction(b) ==
    [b EXCEPT !.current_function_index = @ + 1]

\* BytecodeBuilder::build
Build(b) == [functions |-> b.functions, exports |-> b.exports]

NoBytecode == [functions |-> <<>>, exports |-> EmptyMap]

RECURSIVE AddTypes(_, _)
\* the TypeSection loop of compile_wasm
AddTypes(b, types) ==
    IF types = <<>> THEN b
    ELSE AddTypes(AddFunctionType(b, Head(types)), Tail(types))

RECURSIVE AddLocals(_, _, _)
\* the locals loop of a CodeSectionEntry: n add_local calls per (n, type)
AddLocals(b, locals, done) ==
    IF locals = <<>> THEN [ok |-> TRUE, b |-> b]
    ELSE IF done >= Head(locals)[1] THEN AddLocals(b, Tail(locals), 0)
    ELSE LET r == AddLocal(b, Head(locals)[2]) IN
         IF r.ok THEN AddLocals(r.b, locals, done + 1) ELSE r

RECURSIVE AddOperators(_, _)
\* the operators loop of a CodeSectionEntry
AddOperators(b, ops) ==
    IF ops = <<>> THEN [ok |-> TRUE, b |-> b]
    ELSE LET t == FromOperator(Head(ops)) IN
         IF ~t.ok THEN [ok |-> FALSE, b |-> b]
         ELSE LET r == AddInstruction(b, t.ins) IN
              IF r.ok THEN AddOperators(r.b, Tail(ops)) ELSE r

\* the CodeSectionEntry arm of compile_wasm
CodeSectionEntry(b, entry) ==
    LET l == AddLocals(b, entry.locals, 0) IN
    IF ~l.ok THEN l
    ELSE LET o == AddOperators(l.b, entry.ops) IN
         IF ~o.ok THEN o ELSE [ok |-> TRUE, b |-> NextFunction(o.b)]

\* ------------------------------------------------------------ compile_wasm
Sections == <<"import", "function", "export", "code", "end">>

SectionEntries(m, sec) ==
    CASE sec = "import" -> m.imports
      [] sec = "function" -> m.funcs
      [] sec = "export" -> m.exports
      [] sec = "code" -> m.code
      [] OTHER -> <<>>

RECURSIVE FirstSection(_, _)
\* the first section from Sections[k] on that has an entry; "end" if none
FirstSection(m, k) ==
    IF k >= Len(Sections) THEN "end"
    ELSE IF SectionEntries(m, Sections[k]) # <<>> THEN Sections[k]
    ELSE FirstSection(m, k + 1)

SectionNumber(sec) == CHOOSE k \in 1..Len(Sections) : Sections[k] = sec

\* the position after entry idx of section sec: <<section, index>>
NextPos(m, sec, idx) ==
    IF idx < Len(SectionEntries(m, sec)) THEN <<sec, idx + 1>>
    ELSE <<FirstSection(m, SectionNumber(sec) + 1), 1>>

Idle == status = "running" /\ ~inv.active /\ cstate \in {"idle", "done"}

Panic ==
    /\ status' = "panicked"

\* compile_wasm returns Err(e)
CompileFails(e) ==
    /\ cresult' = e
    /\ cstate' = "done"
    /\ UNCHANGED <<status, wasm, cidx, builder, bytecode>>

\* compile_wasm goes on to the next payload with builder b
CompileGoesOn(b, sec) ==
    /\ builder' = b
    /\ cstate' = NextPos(wasm, sec, cidx)[1]
    /\ cidx' = NextPos(wasm, sec, cidx)[2]
    /\ UNCHANGED <<status, wasm, cresult, bytecode>>

\* Register taking the slot number after the callback is pushed
RegisterAfterPush(r) ==
    /\ imports' = MapInsert(imports, <<r.module, r.name>>,
                            Import(r.func_type, Len(import_fns) + 1))
    /\ import_fns' = Append(import_fns, r.import_fn)
    /\ registered' = Append(registered, r)

\* the body of Imports::add_import: the entry of the key is inserted (replacing
\* an earlier one) with the next slot, and the callback is pushed into that slot
Register(r) ==
    /\ imports' = MapInsert(imports, <<r.module, r.name>>,
                            Import(r.func_type, Len(import_fns)))
    /\ import_fns' = Append(import_fns, r.import_fn)
    /\ registered' = Append(registered, r)

\* Imports::add_import.  The host registers before it compiles (as main does),
\* and registers a key again only while no slot has been superseded.
AddImport(r) ==
    /\ Idle
    /\ cstate = "idle"
    /\ Len(import_fns) < MaxRegs
    /\ <<r.module, r.name>> \in DOMAIN imports =>
           Len(import_fns) = Cardinality(DOMAIN imports)
    /\ Register(r)
    /\ UNCHANGED <<status, overflow_checks, compile_vars, vm_vars>>

\* Imports::add_import, in any sequence: whatever was registered before
AddImportAny(r) ==
    /\ Idle
    /\ cstate = "idle"
    /\ Len(import_fns) < MaxRegistrations
    /\ Register(r)
    /\ UNCHANGED <<status, overflow_checks, compile_vars, vm_vars>>

\* compile_wasm is called on module m: the Version and TypeSection payloads.
\* The host compiles a module that imports every key it has registered.
CompileStart(m) ==
    /\ Idle
    /\ cstate = "idle"
    /\ \A k \in DOMAIN imports :
           \E j \in 1..Len(m.imports) : k = <<m.imports[j].module, m.imports[j].name>>
    /\ wasm' = m
    /\ builder' = AddTypes(BuilderNew, m.types)
    /\ cstate' = FirstSection(m, 1)
    /\ cidx' = 1
    /\ UNCHANGED <<status, overflow_checks, registry_vars, registered, cresult,
                   bytecode, vm_vars>>

\* one entry of the ImportSection
CompileImport ==
    /\ status = "running"
    /\ cstate = "import"
    /\ LET import == wasm.imports[cidx] IN
       IF import.kind # "Func"
       THEN Panic /\ UNCHANGED compile_vars
       ELSE LET func_type == GetFunctionType(builder, import.index)
                found == GetImport(imports, import.module, import.name)
            IN  IF ~IsSome(func_type) THEN CompileFails("InvalidTypeIndex")
                ELSE IF ~IsSome(found) THEN CompileFails("ImportNotFound")
                ELSE IF ~FuncTypeEq(func_type[1], found[1].func_type)
                     THEN CompileFails("ImportSignatureMismatch")
                ELSE CompileGoesOn(
                         BuilderAddImport(builder, found[1].func_type, found[1].index),
                         "import")
    /\ UNCHANGED <<overflow_checks, registry_vars, registered, vm_vars>>

\* one entry of the FunctionSection
CompileFunction ==
    /\ status = "running"
    /\ cstate = "function"
    /\ LET r == AddFunction(builder, wasm.funcs[cidx]) IN
       IF r.ok THEN CompileGoesOn(r.b, "function")
       ELSE Panic /\ UNCHANGED compile_vars
    /\ UNCHANGED <<overflow_checks, registry_vars, registered, vm_vars>>

\* one entry of the ExportSection (From<wasmparser::Export> keeps kind and index)
CompileExport ==
    /\ status = "running"
    /\ cstate = "export"
    /\ LET export == wasm.exports[cidx] IN
       CompileGoesOn(AddExport(builder, export.name,
                               [kind |-> export.kind, index |-> export.index]),
                     "export")
    /\ UNCHANGED <<overflow_checks, registry_vars, registered, vm_vars>>

\* one CodeSectionEntry payload
CompileCode ==
    /\ status = "running"
    /\ cstate = "code"
    /\ LET r == CodeSectionEntry(builder, wasm.code[cidx]) IN
       IF r.ok THEN CompileGoesOn(r.b, "code")
       ELSE Panic /\ UNCHANGED compile_vars
    /\ UNCHANGED <<overflow_checks, registry_vars, registered, vm_vars>>

\* the End payload and Ok(bytecode_builder.build())
CompileEnd ==
    /\ status = "running"
    /\ cstate = "end"
    /\ bytecode' = Build(builder)
    /\ cresult' = "Ok"
    /\ cstate' = "done"
    /\ UNCHANGED <<status, overflow_checks, registry_vars, registered, wasm, cidx,
                   builder, vm_vars>>

\* --------------------------------------------------------------------- Vm
\* Vm::new handing out the stack the first Vm holds (one stack shared by all)
VmNewShared == IF vms = <<>> THEN <<>> ELSE vms[1]

\* Vm::new
VmNew == <<>>

\* Vec::push, Vec::extend and Vec::pop on the stack (the top is the last element)
Push(stack, x) == Append(stack, x)
Extend(stack, xs) == stack \o xs
Top(stack) == stack[Len(stack)]
Pop(stack) == SubSeq(stack, 1, Len(stack) - 1)

\* the value of an i64 read as i32 and of an i32 stored as i64; every value the
\* model holds lies in the i32 range, where neither conversion changes it
AsI32(x) == x
AsI64(x) == x

RECURSIVE PopEach(_, _)
\* val_types.iter().map(|t| Value{t, stack.pop().unwrap()}).collect():
\* the first type gets the top of the stack; ok is FALSE when a pop finds it empty
PopEach(stack, val_types) ==
    IF val_types = <<>> THEN [ok |-> TRUE, values |-> <<>>, stack |-> stack]
    ELSE IF stack = <<>> THEN [ok |-> FALSE, values |-> <<>>, stack |-> stack]
    ELSE LET rest == PopEach(Pop(stack), Tail(val_types)) IN
         [ok |-> rest.ok,
          values |-> <<Value(Head(val_types), Top(stack))>> \o rest.values,
          stack |-> rest.stack]

\* the values of a sequence of Value
RawValues(values) == [i \in 1..Len(values) |-> values[i].value]

\* PushReturn with the Single arm forgotten
PushReturnNoSingle(stack, ret) ==
    IF ret.shape = "Multiple" THEN Extend(stack, RawValues(ret.values)) ELSE stack

\* match result { Single => push, Multiple => extend, Void => {} }
PushReturn(stack, ret) ==
    CASE ret.shape = "Single" -> Push(stack, ret.values[1].value)
      [] ret.shape = "Multiple" -> Extend(stack, RawValues(ret.values))
      [] OTHER -> stack

\* PopReturns wrapping one value whenever a return is declared
PopReturnsSingle(stack, returns) ==
    LET p == PopEach(stack, SubSeq(returns, 1, 1)) IN
    IF Len(returns) = 0 THEN [ok |-> TRUE, ret |-> RetVoid, stack |-> stack]
    ELSE [ok |-> p.ok, stack |-> p.stack,
          ret |-> IF p.ok THEN RetSingle(p.values[1]) ELSE RetVoid]

\* the end of execute_fn: the Return wrapped from the declared return types
PopReturns(stack, returns) ==
    LET p == PopEach(stack, returns) IN
    IF Len(returns) = 0 THEN [ok |-> TRUE, ret |-> RetVoid, stack |-> stack]
    ELSE IF Len(returns) = 1
         THEN [ok |-> p.ok, stack |-> p.stack,
               ret |-> IF p.ok THEN RetSingle(p.values[1]) ELSE RetVoid]
    ELSE [ok |-> p.ok, ret |-> RetMultiple(p.values), stack |-> p.stack]

\* InvokeImport with the callback's failure taken for a Void return
InvokeImportUnchecked(fns, index, args) ==
    IF index >= Len(fns) THEN [panic |-> TRUE, ok |-> FALSE, ret |-> RetVoid, fns |-> fns]
    ELSE LET r == CallClosure(fns[index + 1], args) IN
         [panic |-> FALSE, ok |-> TRUE, ret |-> r.ret,
          fns |-> [fns EXCEPT ![index + 1] = r.cb]]

\* Imports::invoke_import: ok is FALSE when import_fns[index] is out of bounds
InvokeImport(fns, index, args) ==
    IF index >= Len(fns) THEN [panic |-> TRUE, ok |-> FALSE, ret |-> RetVoid, fns |-> fns]
    ELSE LET r == CallClosure(fns[index + 1], args) IN
         [panic |-> FALSE, ok |-> r.ok, ret |-> r.ret,
          fns |-> [fns EXCEPT ![index + 1] = r.cb]]

\* Bytecode::get_function
GetFunction(bc, name) ==
    LET export == MapGet(bc.exports, name) IN
    IF IsSome(export) THEN VecGet(bc.functions, export[1].index) ELSE None

\* Bytecode::get_function_by_index
GetFunctionByIndex(bc, index) == VecGet(bc.functions, index)

\* FreshLocals with the slots left at 1
FreshLocalsUnzeroed(function) ==
    [i \in 1..Len(function.locals) |-> Value(function.locals[i], 1)]

\* the fresh locals of execute_fn's Definition arm
FreshLocals(function) ==
    [i \in 1..Len(function.locals) |-> Value(function.locals[i], 0)]

\* execute_fn on an Import record, from its first line to its last.
\* outcome: "ok" (ret is the Return), "err" (the callback's failure), "panic"
\* (a, r, pushed and p are bound to their values, each computed once)
ExecuteImport(stack, function, fns) ==
    CHOOSE executed \in {
        IF ~a.ok THEN [outcome |-> "panic", ret |-> RetVoid, stack |-> stack, fns |-> fns,
                       args |-> <<>>, pushed |-> 0]
        ELSE CHOOSE invoked \in {
            IF r.panic THEN [outcome |-> "panic", ret |-> RetVoid, stack |-> a.stack,
                             fns |-> fns, args |-> a.values, pushed |-> 0]
            ELSE IF ~r.ok THEN [outcome |-> "err", ret |-> RetVoid, stack |-> a.stack,
                                fns |-> r.fns, args |-> a.values, pushed |-> 0]
            ELSE CHOOSE returned \in {
                [outcome |-> IF p.ok THEN "ok" ELSE "panic",
                 ret |-> p.ret, stack |-> p.stack, fns |-> r.fns,
                 args |-> a.values, pushed |-> Len(r.ret.values)] :
                    p \in {PopReturns(pushed, function.func_type.returns) :
                               pushed \in {PushReturn(a.stack, r.ret)}}} : TRUE :
                r \in {InvokeImport(fns, function.index, a.values)}} : TRUE :
            a \in {PopEach(stack, function.func_type.params)}} : TRUE

\* The instructions with two i32 operands
BinaryInstructions ==
    {"I32Add", "I32Sub", "I32Mul", "I32Div", "I32Rem", "I32And", "I32Or",
     "I32Xor", "I32Shl"}

\* a <op> b panics: always for a zero divisor and for MinI32 / -1, and in a
\* build with overflow checks for a result or shift count out of range
BinaryPanics(op, a, b, checks) ==
    CASE op = "I32Add" -> checks /\ AddOverflows(a, b)
      [] op = "I32Sub" -> checks /\ SubOverflows(a, b)
      [] op = "I32Mul" -> checks /\ MulOverflows(a, b)
      [] op \in {"I32Div", "I32Rem"} -> b = 0 \/ (a = MinI32 /\ b = -1)
      [] op = "I32Shl" -> checks /\ (b < 0 \/ b >= 32)
      [] OTHER -> FALSE

\* a <op> b where it does not panic
BinaryResult(op, a, b) ==
    CASE op = "I32Add" -> WrappingAdd(a, b)
      [] op = "I32Sub" -> WrappingSub(a, b)
      [] op = "I32Mul" -> WrappingMul(a, b)
      [] op = "I32Div" -> TruncDiv(a, b)
      [] op = "I32Rem" -> TruncRem(a, b)
      [] op = "I32And" -> Bitwise("and", a, b, 32)
      [] op = "I32Or" -> Bitwise("or", a, b, 32)
      [] op = "I32Xor" -> Bitwise("xor", a, b, 32)
      [] OTHER -> ShlBy(a, b % 32)

\* Unimplemented with Return stepped over like End
UnimplementedGlobals(op) == op \in {"GlobalGet", "GlobalSet"}

\* the instructions whose arm of execute_instruction is todo!()
Unimplemented(op) == op \in {"GlobalGet", "GlobalSet", "Return"}

\* how many values the instruction pops before it pushes
Pops(instruction) ==
    CASE instruction.op \in BinaryInstructions -> 2
      [] instruction.op = "LocalSet" -> 1
      [] OTHER -> 0

\* execute_instruction for every instruction but Call.
\* [ok, stack, locals]; ok is FALSE on a panic
ExecuteInstruction(instruction, stack, locals, checks) ==
    LET op == instruction.op
        bad == [ok |-> FALSE, stack |-> stack, locals |-> locals]
    IN
    CASE op \in BinaryInstructions ->
            IF Len(stack) < 2 THEN bad
            ELSE LET b == AsI32(Top(stack))
                     a == AsI32(Top(Pop(stack)))
                 IN  IF BinaryPanics(op, a, b, checks) THEN bad
                     ELSE [ok |-> TRUE, locals |-> locals,
                           stack |-> Push(Pop(Pop(stack)), AsI64(BinaryResult(op, a, b)))]
      [] op = "I32Const" ->
            [ok |-> TRUE, locals |-> locals, stack |-> Push(stack, AsI64(instruction.arg))]
      [] op = "LocalGet" ->
            IF instruction.arg >= Len(locals) THEN bad
            ELSE [ok |-> TRUE, locals |-> locals,
                  stack |-> Push(stack, locals[instruction.arg + 1].value)]
      [] op = "LocalSet" ->
            IF stack = <<>> \/ instruction.arg >= Len(locals) THEN bad
            ELSE [ok |-> TRUE, stack |-> Pop(stack),
                  locals |-> [locals EXCEPT ![instruction.arg + 1].value = Top(stack)]]
      [] Unimplemented(op) -> bad
      [] OTHER -> [ok |-> TRUE, stack |-> stack, locals |-> locals]  \* End

\* ------------------------------------------------------------ activations
\* One activation of execute_fn on a Definition record: the function (by its
\* index in bytecode.functions), the next instruction (from 1), its locals, and
\* the arguments execute_fn collected (which a Definition never reads).
\* entry is the length of the stack when execute_fn was entered and floor is
\* entry less the declared parameters: what lies below belongs to the callers.
Frame(fidx, function, entry, args) ==
    [fidx |-> fidx, pc |-> 1, locals |-> FreshLocals(function), args |-> args,
     entry |-> entry, floor |-> entry - Len(function.func_type.params)]

NoCall == [done |-> FALSE, before |-> 0, after |-> 0, params |-> 0, returns |-> 0,
           kind |-> "", args |-> <<>>]

NoInv ==
    [active |-> FALSE, vm |-> 0, name |-> "", frames |-> <<>>,
     start_stack |-> <<>>, start_fns |-> <<>>, borrowed |-> FALSE,
     last_call |-> NoCall]

FunctionAt(fidx) == bytecode.functions[fidx + 1]

\* the floor of the innermost activation (of the run itself when there is none)
FloorOf(frames, stack) ==
    IF frames = <<>> THEN 0 ELSE frames[Len(frames)].floor

\* execute_fn is entered on function (record fidx) with the activations frames
\* below it.  kind: "panic", "exhausted" (no call stack left), "err" (a host
\* failure), "returned" (an Import: ret is its Return), "entered" (a Definition:
\* its activation is the last of frames).
Enter(stack, frames, fns, function, fidx) ==
    LET np == Len(function.func_type.params)
        nr == Len(function.func_type.returns)
        entry == Len(stack)
        under == entry - np < FloorOf(frames, stack)
    IN
    IF function.kind = "Import"
    THEN CHOOSE e \in
             {[kind |-> CASE r.outcome = "ok" -> "returned"
                          [] r.outcome = "err" -> "err"
                          [] OTHER -> "panic",
               stack |-> r.stack, frames |-> frames, fns |-> r.fns, ret |-> r.ret,
               borrowed |-> under \/ (r.outcome = "ok" /\ r.pushed < nr),
               entry |-> entry, args |-> r.args] :
                  r \in {ExecuteImport(stack, function, fns)}} : TRUE
    ELSE LET a == PopEach(stack, function.func_type.params) IN
         [kind |-> IF ~a.ok THEN "panic"
                   ELSE IF Len(frames) >= MaxDepth THEN "exhausted"
                   ELSE "entered",
          stack |-> a.stack,
          frames |-> Append(frames, Frame(fidx, function, entry, a.values)),
          fns |-> fns, ret |-> RetVoid, borrowed |-> under,
          entry |-> entry, args |-> a.values]

\* ------------------------------------------------------------- run outcomes
LogEntry(i, outcome, err, ret, stack) ==
    [vm |-> i.vm, name |-> i.name,
     fresh |-> \A k \in 1..Len(log) : log[k].vm # i.vm,
     start_fns |-> i.start_fns, start_stack |-> i.start_stack,
     outcome |-> outcome, err |-> err, ret |-> ret, stack |-> stack,
     borrowed |-> i.borrowed, depth |-> Len(i.frames)]

\* a panic (or the exhaustion of the call stack) inside run i
RunAborts(i, how, stack, fns) ==
    /\ status' = "panicked"
    /\ vms' = [vms EXCEPT ![i.vm] = stack]
    /\ import_fns' = fns
    /\ inv' = [i EXCEPT !.active = FALSE]
    /\ log' = Append(log, LogEntry(i, how, "", RetVoid, stack))

\* RunEnds with the stack cleared as run returns
RunEndsClearing(i, outcome, err, ret, stack, fns) ==
    /\ status' = status
    /\ vms' = [vms EXCEPT ![i.vm] = <<>>]
    /\ import_fns' = fns
    /\ inv' = [i EXCEPT !.active = FALSE, !.frames = <<>>]
    /\ log' = Append(log, LogEntry(i, outcome, err, ret, stack))

\* run i returns: Ok(ret) or Err(err)
RunEnds(i, outcome, err, ret, stack, fns) ==
    /\ status' = status
    /\ vms' = [vms EXCEPT ![i.vm] = stack]
    /\ import_fns' = fns
    /\ inv' = [i EXCEPT !.active = FALSE, !.frames = <<>>]
    /\ log' = Append(log, LogEntry(i, outcome, err, ret, stack))

\* run i goes on with the given stack and activations
RunGoesOn(i, stack, frames, fns) ==
    /\ status' = status
    /\ vms' = [vms EXCEPT ![i.vm] = stack]
    /\ import_fns' = fns
    /\ inv' = [i EXCEPT !.frames = frames]
    /\ log' = log

\* Deliver starting the caller's body again after the callee has returned
DeliverRestarting(i, ret, stack, frames, fns) ==
    IF frames = <<>> THEN RunEnds(i, "Ok", "", ret, stack, fns)
    ELSE LET n == Len(frames)
             after == PushReturn(stack, ret)
         IN  RunGoesOn([i EXCEPT !.last_call.done = TRUE,
                                 !.last_call.after = Len(after)],
                       after, [frames EXCEPT ![n].pc = 1], fns)

\* the Return of a callee reaches the Call instruction of the innermost
\* activation of frames (it is spliced onto the stack), or, with no activation
\* left, run returns it
Deliver(i, ret, stack, frames, fns) ==
    IF frames = <<>> THEN RunEnds(i, "Ok", "", ret, stack, fns)
    ELSE LET n == Len(frames)
             after == PushReturn(stack, ret)
         IN  RunGoesOn([i EXCEPT !.last_call.done = TRUE,
                                 !.last_call.after = Len(after)],
                       after, [frames EXCEPT ![n].pc = @ + 1], fns)

\* what follows execute_fn being entered (e is Enter's result) within run i
AfterEnter(i, e) ==
    LET j == [i EXCEPT !.borrowed = @ \/ e.borrowed] IN
    CASE e.kind = "panic" -> RunAborts(j, "Panic", e.stack, e.fns)
      [] e.kind = "exhausted" -> RunAborts(j, "Exhausted", e.stack, e.fns)
      [] e.kind = "err" -> RunEnds(j, "Err", "HostFailure", RetVoid, e.stack, e.fns)
      [] e.kind = "returned" -> Deliver(j, e.ret, e.stack, e.frames, e.fns)
      [] OTHER -> RunGoesOn(j, e.stack, e.frames, e.fns)

\* ------------------------------------------------------------- Vm actions
\* BytecodeBorrowed with run taking the export index out of the Bytecode
BytecodeTaken ==
    /\ bytecode' = [bytecode EXCEPT !.exports = EmptyMap]
    /\ UNCHANGED <<wasm, cstate, cidx, builder, cresult>>

\* run, execute_fn and execute_instruction take bytecode: &Bytecode, a shared
\* reference: nothing they do changes the Bytecode (nor reaches the compiler)
BytecodeBorrowed == UNCHANGED compile_vars

\* Vm::new.  The host creates a Vm once a module is compiled (as main does), and
\* another one once every Vm it has created has run.
NewVm ==
    /\ Idle
    /\ cresult = "Ok"
    /\ Len(vms) < MaxVms
    /\ \A v \in 1..Len(vms) : \E k \in 1..Len(log) : log[k].vm = v
    /\ vms' = Append(vms, VmNew)
    /\ UNCHANGED <<status, overflow_checks, registry_vars, registered, compile_vars,
                   inv, runs, log>>

\* Vm::run on Vm v: the export is resolved and execute_fn entered
Run(v, name) ==
    /\ Idle
    /\ cresult = "Ok"
    /\ runs < MaxRuns
    /\ runs' = runs + 1
    /\ LET i == [NoInv EXCEPT !.active = TRUE, !.vm = v, !.name = name,
                              !.start_stack = vms[v], !.start_fns = import_fns]
           function == GetFunction(bytecode, name)
       IN  IF ~IsSome(function)
           THEN RunEnds(i, "Err", "FunctionNotFound", RetVoid, vms[v], import_fns)
           ELSE \E e \in {Enter(vms[v], <<>>, import_fns, function[1],
                                  bytecode.exports[name].index)} :
                    AfterEnter(i, e)
    /\ BytecodeBorrowed
    /\ UNCHANGED <<overflow_checks, imports, registered>>

\* execute_instruction on the next instruction of the innermost activation
Execute ==
    /\ status = "running"
    /\ inv.active
    /\ inv.frames # <<>>
    /\ LET n == Len(inv.frames)
           frame == inv.frames[n]
           body == FunctionAt(frame.fidx).body
           stack == vms[inv.vm]
       IN
       /\ frame.pc <= Len(body)
       /\ LET instruction == body[frame.pc] IN
          IF instruction.op = "Call"
          THEN LET callee == GetFunctionByIndex(bytecode, instruction.arg) IN
               IF ~IsSome(callee)
               THEN RunEnds(inv, "Err", "FunctionNotFound", RetVoid, stack, import_fns)
               ELSE \E e \in {Enter(stack, inv.frames, import_fns, callee[1],
                                      instruction.arg)} :
                    LET c == [done |-> FALSE, before |-> Len(stack), after |-> 0,
                              params |-> Len(callee[1].func_type.params),
                              returns |-> Len(callee[1].func_type.returns),
                              kind |-> callee[1].kind, args |-> e.args]
                    IN  AfterEnter([inv EXCEPT !.last_call = c], e)
          ELSE \E r \in {ExecuteInstruction(instruction, stack, frame.locals,
                                              overflow_checks)} :
                   IF ~r.ok THEN RunAborts(inv, "Panic", stack, import_fns)
                   ELSE RunGoesOn(
                            [inv EXCEPT !.borrowed =
                                            @ \/ Len(stack) - Pops(instruction) < frame.floor,
                                        !.last_call.done = FALSE],
                            r.stack,
                            [inv.frames EXCEPT ![n].pc = @ + 1,
                                               ![n].locals = r.locals],
                            import_fns)
    /\ BytecodeBorrowed
    /\ UNCHANGED <<overflow_checks, imports, registered, runs>>

\* the end of execute_fn on a Definition: the body is done, the declared returns
\* are popped and wrapped, and the Return goes to the caller
Return ==
    /\ status = "running"
    /\ inv.active
    /\ inv.frames # <<>>
    /\ LET n == Len(inv.frames)
           frame == inv.frames[n]
           function == FunctionAt(frame.fidx)
           stack == vms[inv.vm]
       IN
       /\ frame.pc > Len(function.body)
       /\ \E p \in {PopReturns(stack, function.func_type.returns)} :
          IF ~p.ok THEN RunAborts(inv, "Panic", stack, import_fns)
          ELSE Deliver([inv EXCEPT
                           !.borrowed = @ \/ Len(p.stack) < frame.floor,
                           !.last_call =
                               [done |-> FALSE, before |-> frame.entry, after |-> 0,
                                params |-> Len(function.func_type.params),
                                returns |-> Len(function.func_type.returns),
                                kind |-> function.kind, args |-> frame.args]],
                       p.ret, p.stack, SubSeq(inv.frames, 1, n - 1), import_fns)
    /\ BytecodeBorrowed
    /\ UNCHANGED <<overflow_checks, imports, registered, runs>>

\* ------------------------------------------------------------ specification
Init ==
    /\ status = "running"
    /\ overflow_checks \in BOOLEAN
    /\ imports = EmptyMap
    /\ import_fns = <<>>
    /\ registered = <<>>
    /\ wasm = Module(<<>>, <<>>, <<>>, <<>>)
    /\ cstate = "idle"
    /\ cidx = 1
    /\ builder = BuilderNew
    /\ cresult = "none"
    /\ bytecode = NoBytecode
    /\ vms = <<>>
    /\ inv = NoInv
    /\ runs = 0
    /\ log = <<>>

Next ==
    \/ \E r \in Registrations : AddImport(r)
    \/ \E m \in Modules : CompileStart(m)
    \/ CompileImport
    \/ CompileFunction
    \/ CompileExport
    \/ CompileCode
    \/ CompileEnd
    \/ NewVm
    \/ \E v \in 1..Len(vms), name \in Names(bytecode) : Run(v, name)
    \/ Execute
    \/ Return

Spec == Init /\ [][Next]_vars

\* the registry filled by any sequence of add_import calls, and the
\* compilations against it
NextRegistry ==
    \/ \E r \in Registrations : AddImportAny(r)
    \/ \E m \in Modules : CompileStart(m)
    \/ CompileImport
    \/ CompileFunction
    \/ CompileExport
    \/ CompileCode
    \/ CompileEnd

SpecRegistry == Init /\ [][NextRegistry]_vars

\* Vm::run is one synchronous call on one thread: once it is entered, the loop
\* of execute_fn takes the next instruction, and a body that is through returns,
\* without waiting for anything outside the call.
RunProceeds == WF_vars(Execute) /\ WF_vars(Return)

\* a host that creates one Vm, as main does, and runs on it
NextOneVm ==
    \/ \E r \in Registrations : AddImport(r)
    \/ \E m \in Modules : CompileStart(m)
    \/ CompileImport
    \/ CompileFunction
    \/ CompileExport
    \/ CompileCode
    \/ CompileEnd
    \/ (vms = <<>> /\ NewVm)
    \/ \E v \in 1..Len(vms), name \in Names(bytecode) : Run(v, name)
    \/ Execute
    \/ Return

SpecRunProceeds == Init /\ [][NextOneVm]_vars /\ RunProceeds

\* ------------------------------------------------------------------ claims
LogEntries == {log[k] : k \in 1..Len(log)}

\* the registry holds exactly env.get_number: () -> I32, answering 42
ReferenceRegistry(e) ==
    /\ e.start_fns = <<Closure("const42")>>
    /\ DOMAIN imports = {<<"env", "get_number">>}
    /\ imports[<<"env", "get_number">>] = Import(FuncType(<<>>, <<I32>>), 0)

ReferenceRun(e) ==
    /\ wasm = ModSimple
    /\ e.name = "add_five_to_imported"
    /\ e.fresh
    /\ ReferenceRegistry(e)

\* C1: the reference scenario. With the registry holding only env.get_number:
\* () -> I32 answering Single(I32, 42), running add_five_to_imported (Call(import);
\* PushConst(5); Add; BlockEnd, () -> I32) on a fresh Vm returns Single(I32, 47).
C1_ReferenceScenario ==
    \A e \in LogEntries :
        ReferenceRun(e) => e.outcome = "Ok" /\ e.ret = RetSingle(Value(I32, 47))

C1_Witness ==
    \E e \in LogEntries : ReferenceRun(e) /\ e.ret = RetSingle(Value(I32, 47))

\* the export a run's name resolves to is a Function export
ResolvesToFunction(name) ==
    /\ name \in DOMAIN bytecode.exports
    /\ bytecode.exports[name].kind = "Function"

\* C2: run fails with FunctionNotFound whenever the name is absent from the
\* export index and whenever it resolves to an export that is not a Function
\* (Table, Memory, Global, Tag), even one whose index is a valid function index.
C2_ExportResolution ==
    \A e \in LogEntries :
        ~ResolvesToFunction(e.name) =>
            e.outcome = "Err" /\ e.err = "FunctionNotFound" /\ e.stack = e.start_stack

\* some position of the two type lists differs
TypesDiffer(xs, ys) ==
    \/ Len(xs) # Len(ys)
    \/ \E p \in 1..Len(xs) : xs[p] # ys[p]

SignaturesDiffer(f, g) ==
    TypesDiffer(f.params, g.params) \/ TypesDiffer(f.returns, g.returns)

\* compile_wasm is at a function import whose type index the type section holds
AtFuncImport ==
    /\ status = "running"
    /\ cstate = "import"
    /\ wasm.imports[cidx].kind = "Func"
    /\ wasm.imports[cidx].index < Len(wasm.types)

\* C3: for a function import (whose type index resolves): compile fails with
\* ImportNotFound if its (module, field) key is not registered; with
\* ImportSignatureMismatch if the registered signature differs from the declared
\* one in some parameter or return position; otherwise compilation goes on and an
\* Imported record carrying the key's registered slot is appended.
C3_ImportValidation ==
    [][AtFuncImport =>
        LET import == wasm.imports[cidx]
            key == <<import.module, import.name>>
            declared == wasm.types[import.index + 1]
        IN  IF key \notin DOMAIN imports
            THEN cresult' = "ImportNotFound" /\ cstate' = "done"
                 /\ bytecode' = NoBytecode
            ELSE IF SignaturesDiffer(imports[key].func_type, declared)
            THEN cresult' = "ImportSignatureMismatch" /\ cstate' = "done"
                 /\ bytecode' = NoBytecode
            ELSE /\ cresult' = "none" /\ status' = "running"
                 /\ cstate' # "done"
                 /\ builder'.functions =
                        Append(builder.functions,
                               ImportFunction(declared, imports[key].index))
    ]_vars

\* a compiled module whose second import took slot 1 of the registry
C3_Witness ==
    /\ cresult = "Ok"
    /\ Len(wasm.imports) = 2
    /\ Len(bytecode.functions) = 2
    /\ bytecode.functions[2].kind = "Import"
    /\ bytecode.functions[2].index = 1

\* the innermost activation of the run in progress (or of the run that aborted)
Innermost == inv.frames[Len(inv.frames)]

\* the instruction the innermost activation is at
AtInstruction ==
    /\ inv.frames # <<>>
    /\ Innermost.pc <= Len(FunctionAt(Innermost.fidx).body)

CurrentInstruction == FunctionAt(Innermost.fidx).body[Innermost.pc]

\* the next step executes a binary instruction with both operands on the stack
\* (and a divisor other than 0)
AtBinary ==
    /\ status = "running"
    /\ inv.active
    /\ AtInstruction
    /\ CurrentInstruction.op \in BinaryInstructions
    /\ Len(vms[inv.vm]) >= 2
    /\ CurrentInstruction.op \in {"I32Div", "I32Rem"} => Top(vms[inv.vm]) # 0

\* C4: for all i32 a and b (b # 0 for Div and Rem), also when the exact result
\* is outside the i32 range, a binary instruction pops b then a, pushes the one
\* value a <op> b in two's-complement 32-bit arithmetic, and does not fail.
C4_Arithmetic ==
    [][AtBinary =>
        LET stack == vms[inv.vm]
            b == Top(stack)
            a == Top(Pop(stack))
        IN  /\ status' = "running"
            /\ vms'[inv.vm] =
                   Push(Pop(Pop(stack)), BinaryResult(CurrentInstruction.op, a, b))
    ]_vars

\* run e is of an exported (I32) -> I32 function with the body LocalGet(0);
\* PushConst(5); Add; BlockEnd, with a value on top of the stack as its argument
AddFiveRun(e) ==
    /\ ResolvesToFunction(e.name)
    /\ LET function == GetFunction(bytecode, e.name) IN
       /\ IsSome(function)
       /\ function[1].kind = "Definition"
       /\ function[1].func_type = FuncType(<<I32>>, <<I32>>)
       /\ function[1].body = AddFive
    /\ e.start_stack # <<>>

\* C5: a defined (I32) -> I32 function with body LocalGet(0); PushConst(5); Add;
\* BlockEnd, invoked with the argument arg on top of the stack, returns
\* Single(arg + 5): LocalGet(0) reads the call argument.
C5_CallRoundTrip ==
    \A e \in LogEntries :
        AddFiveRun(e) =>
            /\ e.outcome = "Ok"
            /\ e.ret = RetSingle(Value(I32, WrappingAdd(Top(e.start_stack), 5)))

\* C6: an invocation in which some activation pops more values than were pushed
\* for it (below its own arguments, into what its callers hold) ends in a fatal
\* failure; it never completes with a Return value.
C6_NoSilentUnderflow ==
    \A e \in LogEntries : e.borrowed => e.outcome # "Ok"

\* the next step executes GlobalGet, GlobalSet or Return
AtUnimplemented ==
    /\ status = "running"
    /\ inv.active
    /\ AtInstruction
    /\ CurrentInstruction.op \in {"GlobalGet", "GlobalSet", "Return"}

\* C7: when execution reaches GlobalGet, GlobalSet or Return, at any depth, the
\* invocation fails there: no Return value is produced, the instruction is not
\* stepped over, and nothing executes afterwards.
C7_UnimplementedFails ==
    [][/\ AtUnimplemented =>
            /\ status' = "panicked"
            /\ ~inv'.active
            /\ inv'.frames = inv.frames
            /\ Len(log') = Len(log) + 1
            /\ log'[Len(log')].outcome = "Panic"
            /\ vms' = vms
       /\ status = "panicked" => UNCHANGED vars
    ]_vars

\* a run that aborted at a Return instruction
C7_Witness ==
    /\ status = "panicked"
    /\ AtInstruction
    /\ CurrentInstruction.op = "Return"
    /\ log # <<>>
    /\ log[Len(log)].outcome = "Panic"

\* two runs on two freshly created Vm instances, of the same name, with the
\* registry in the same state when each began
SameFreshRuns(d, e) ==
    /\ d.fresh /\ e.fresh
    /\ d.vm # e.vm
    /\ d.name = e.name
    /\ d.start_fns = e.start_fns

\* C8: two freshly created Vm instances that run the same exported function of
\* the same Bytecode against registries in the same state end alike: the same
\* Return value or the same failure, and the same operand stack.
C8_Determinism ==
    \A d, e \in LogEntries :
        SameFreshRuns(d, e) =>
            /\ d.outcome = e.outcome
            /\ d.err = e.err
            /\ d.ret = e.ret
            /\ d.stack = e.stack

\* two such runs that returned a value and left something on their stacks
C8_Witness ==
    \E d, e \in LogEntries :
        /\ SameFreshRuns(d, e)
        /\ d.outcome = "Ok" /\ e.outcome = "Ok"
        /\ d.ret.shape = "Single"
        /\ d.stack # <<>>

\* C9: after a successful compilation of a module with m function imports and n
\* function-section entries the function table has m + n records: record i < m
\* is the Imported record of the i-th import, record m + k the Defined record of
\* the k-th function-section entry with its signature; Call(j) resolves to
\* record j (the activation a Call opens is that of the record it names).
C9_FunctionIndices ==
    cresult = "Ok" =>
        LET m == Len(wasm.imports)
            n == Len(wasm.funcs)
            fs == bytecode.functions
        IN  /\ Len(fs) = m + n
            /\ \A i \in 1..m :
                   /\ fs[i].kind = "Import"
                   /\ fs[i].func_type = wasm.types[wasm.imports[i].index + 1]
                   /\ fs[i].index =
                          imports[<<wasm.imports[i].module, wasm.imports[i].name>>].index
            /\ \A k \in 1..n :
                   /\ fs[m + k].kind = "Definition"
                   /\ fs[m + k].func_type = wasm.types[wasm.funcs[k] + 1]
            /\ \A j \in 0..(m + n - 1) : GetFunctionByIndex(bytecode, j) = Some(fs[j + 1])
            /\ \A d \in 2..Len(inv.frames) :
                   LET caller == inv.frames[d - 1] IN
                   FunctionAt(caller.fidx).body[caller.pc] = Ins("Call", inv.frames[d].fidx)

\* a compiled module with two imports of different types, one of them called
C9_Witness ==
    /\ cresult = "Ok"
    /\ Len(wasm.imports) = 2
    /\ wasm.imports[1].index # wasm.imports[2].index
    /\ log # <<>>
    /\ log[Len(log)].outcome = "Ok"

\* C10: after a Call that completes, the stack is as long as before the call
\* (its arguments aside) plus the callee's declared return arity: the callee
\* leaves no residue, and one that would does not complete.
C10_CallBalance ==
    inv.last_call.done =>
        inv.last_call.after =
            inv.last_call.before - inv.last_call.params + inv.last_call.returns

\* compile_wasm is at an entry that names a type index the type section does
\* not hold: a function import or a function-section entry
AtMissingType ==
    /\ status = "running"
    /\ \/ /\ cstate = "import"
          /\ wasm.imports[cidx].kind = "Func"
          /\ wasm.imports[cidx].index >= Len(wasm.types)
       \/ /\ cstate = "function"
          /\ wasm.funcs[cidx] >= Len(wasm.types)

\* C11: a reference to a type index that does not exist, by a function import
\* or by a function-section entry, makes compile_wasm return an error value: the
\* program is not aborted, and no Bytecode, complete or partial, is produced.
C11_MissingTypeIndex ==
    [][AtMissingType =>
        /\ status' = "running"
        /\ cstate' = "done"
        /\ cresult' \notin {"none", "Ok"}
        /\ bytecode' = NoBytecode
    ]_vars

\* C12: execution leaves the Bytecode alone: for every sequence of run
\* invocations, ended or failed, on one or several Vm instances, every step
\* after compile_wasm returned Ok keeps the function table and the export index,
\* so every Call and every instruction fetch of a run reads the same table.
C12_BytecodeUnchanged ==
    [][cresult = "Ok" => bytecode' = bytecode /\ cresult' = "Ok"]_vars

\* runs on two Vm instances, one that returned a value and one that failed,
\* with the Bytecode still the one compile_wasm built
C12_Witness ==
    /\ cresult = "Ok"
    /\ bytecode = Build(builder)
    /\ bytecode.functions # <<>>
    /\ \E d, e \in LogEntries :
           /\ d.vm # e.vm
           /\ d.outcome = "Ok"
           /\ e.outcome \in {"Err", "Panic"}

RECURSIVE LocalSlots(_)
\* the local slots a code entry declares: each (n, type) group is n slots
LocalSlots(locals) ==
    IF locals = <<>> THEN <<>>
    ELSE [i \in 1..Head(locals)[1] |-> Head(locals)[2]] \o LocalSlots(Tail(locals))

\* the instructions a code entry's operators stand for
Instructions(ops) == [i \in 1..Len(ops) |-> FromOperator(ops[i]).ins]

\* a module with n >= 1 function-section entries (of types the type section
\* holds) followed by n code entries whose operators all have a translation
MatchedCode ==
    /\ Len(wasm.funcs) >= 1
    /\ Len(wasm.code) = Len(wasm.funcs)
    /\ \A k \in 1..Len(wasm.funcs) : wasm.funcs[k] < Len(wasm.types)
    /\ \A k \in 1..Len(wasm.code) :
           \A i \in 1..Len(wasm.code[k].ops) : FromOperator(wasm.code[k].ops[i]).ok

\* compile_wasm is past the function section (and has not failed)
PastFunctions ==
    \/ cstate \in {"export", "code", "end"}
    \/ cstate = "done" /\ cresult = "Ok"

\* the code entries compile_wasm has been through
CodeEntriesRead ==
    CASE cstate = "code" -> cidx - 1
      [] cstate = "end" \/ (cstate = "done" /\ cresult = "Ok") -> Len(wasm.code)
      [] OTHER -> 0

\* C13: for a module with m function imports and n >= 1 function-section
\* entries followed by n code entries, the builder's boundary between imports
\* and definitions is m, the locals and instructions of code entry k are stored
\* in record m + k and in no other record, and every write lands on an existing
\* Definition record (compile_wasm does not abort in the code section).
C13_CodeMatching ==
    (MatchedCode /\ PastFunctions) =>
        LET m == Len(wasm.imports)
            fs == builder.functions
        IN  /\ UnwrapOr(builder.first_function_index, 0) = m
            /\ \A k \in 1..CodeEntriesRead :
                   /\ fs[m + k].kind = "Definition"
                   /\ fs[m + k].locals = LocalSlots(wasm.code[k].locals)
                   /\ fs[m + k].body = Instructions(wasm.code[k].ops)
            /\ \A j \in 1..Len(fs) :
                   (j <= m \/ j > m + CodeEntriesRead) =>
                       fs[j].locals = <<>> /\ fs[j].body = <<>>
            /\ ~(status = "panicked" /\ cstate = "code")

\* the operators for which the Instruction enum has a variant
OperatorsWithVariant ==
    {"I32Add", "I32Sub", "I32Mul", "I32DivS", "I32RemS", "I32And", "I32Or",
     "I32Xor", "I32Shl", "I32Const", "Call", "LocalGet", "LocalSet",
     "GlobalGet", "GlobalSet", "End", "Return"}

\* the Instruction variant that matches an operator
MatchingInstruction(operator) ==
    CASE operator.op = "I32DivS" -> Ins("I32Div", operator.arg)
      [] operator.op = "I32RemS" -> Ins("I32Rem", operator.arg)
      [] OTHER -> Ins(operator.op, operator.arg)

\* compile_wasm is at the code entry of a module with one defined function, and
\* every operator of the entry has an Instruction variant
AtCodeEntry ==
    /\ status = "running"
    /\ cstate = "code"
    /\ Len(wasm.funcs) = 1
    /\ Len(wasm.code) = 1
    /\ \A i \in 1..Len(wasm.code[1].ops) : wasm.code[1].ops[i].op \in OperatorsWithVariant

\* C14: a code entry whose operators all have an Instruction variant (i32 add,
\* sub, mul, div, rem, and, or, xor, shl, i32.const, call, local.get, local.set,
\* global.get, global.set, end, return) is translated operator by operator: the
\* record's body is the matching instructions, in the entry's order and number.
C14_OperatorTranslation ==
    [][AtCodeEntry =>
        LET ops == wasm.code[1].ops
            record == builder'.functions[Len(wasm.imports) + 1]
        IN  /\ status' = "running"
            /\ record.body = [i \in 1..Len(ops) |-> MatchingInstruction(ops[i])]
    ]_vars

\* function is an Import record whose callback, called now with the arguments on
\* top of stack, returns a failure
FailsNow(function, stack) ==
    /\ function.kind = "Import"
    /\ function.index < Len(import_fns)
    /\ LET a == PopEach(stack, function.func_type.params) IN
       a.ok /\ ~CallClosure(import_fns[function.index + 1], a.values).ok

\* the step ends the run on Vm v with the host's failure: run returns Err and no
\* Return, no activation is left to execute, the arguments are gone from the
\* stack and nothing else is, and no callback but the failing one was called
FailurePropagates(function, v) ==
    LET a == PopEach(vms[v], function.func_type.params)
        slot == function.index + 1
    IN  /\ status' = "running"
        /\ ~inv'.active
        /\ inv'.frames = <<>>
        /\ Len(log') = Len(log) + 1
        /\ log'[Len(log')].outcome = "Err"
        /\ log'[Len(log')].err = "HostFailure"
        /\ log'[Len(log')].ret = RetVoid
        /\ vms' = [vms EXCEPT ![v] = a.stack]
        /\ import_fns' =
               [import_fns EXCEPT ![slot] = CallClosure(import_fns[slot], a.values).cb]

\* the next step is a Call, at whatever depth, of an import that fails
AtFailingCall ==
    /\ status = "running"
    /\ inv.active
    /\ AtInstruction
    /\ CurrentInstruction.op = "Call"
    /\ IsSome(GetFunctionByIndex(bytecode, CurrentInstruction.arg))
    /\ FailsNow(GetFunctionByIndex(bytecode, CurrentInstruction.arg)[1], vms[inv.vm])

\* the step is a run of an export that is an import that fails
RunsFailingImport ==
    /\ runs' = runs + 1
    /\ IsSome(GetFunction(bytecode, inv'.name))
    /\ FailsNow(GetFunction(bytecode, inv'.name)[1], vms[inv'.vm])

\* C15: when a host callback called at any depth returns a failure, no further
\* instruction of any enclosing body executes, no further callback is called
\* during that run, and run returns that failure, not a Return value.
C15_HostFailure ==
    [][/\ AtFailingCall =>
              FailurePropagates(
                  GetFunctionByIndex(bytecode, CurrentInstruction.arg)[1], inv.vm)
       /\ RunsFailingImport =>
              FailurePropagates(GetFunction(bytecode, inv'.name)[1], inv'.vm)
    ]_vars

\* a run that ended with the host's failure two activations deep, the callback
\* having answered once before it failed
C15_Witness ==
    /\ log # <<>>
    /\ log[Len(log)].outcome = "Err"
    /\ log[Len(log)].err = "HostFailure"
    /\ log[Len(log)].depth = 2
    /\ log[Len(log)].stack # log[Len(log)].start_stack

\* the frame an activation of record fidx starts with: its declared local
\* slots, in order, each zero
ZeroFrame(fidx) ==
    [i \in 1..Len(FunctionAt(fidx).locals) |-> Value(FunctionAt(fidx).locals[i], 0)]

\* C16: every activation of a Definition, repeated or nested ones of the same
\* function included, starts with exactly its declared local slots, all zero;
\* a step changes no frame but that of the activation executing, and that one
\* only by its own LocalSet: a caller's frame is the same before, during and
\* after a nested Call.
C16_FrameIsolation ==
    [][LET old == inv.frames
           new == inv'.frames
       IN  /\ (inv'.active /\ Len(new) > (IF inv.active THEN Len(old) ELSE 0)) =>
                  /\ new[Len(new)].pc = 1
                  /\ new[Len(new)].locals = ZeroFrame(new[Len(new)].fidx)
           /\ (inv.active /\ inv'.active) =>
                  \A d \in 1..Len(old) :
                      d <= Len(new) =>
                          \/ new[d].locals = old[d].locals
                          \/ /\ d = Len(old)
                             /\ CurrentInstruction.op = "LocalSet"
                             /\ new[d].locals =
                                    [old[d].locals EXCEPT
                                        ![CurrentInstruction.arg + 1].value =
                                            Top(vms[inv.vm])]
    ]_vars

\* a nested activation of the same function starting from zero while its
\* caller's local holds what the caller set
C16_Witness ==
    /\ inv.active
    /\ Len(inv.frames) >= 2
    /\ inv.frames[1].fidx = inv.frames[2].fidx
    /\ inv.frames[1].locals # ZeroFrame(inv.frames[1].fidx)
    /\ inv.frames[2].locals = ZeroFrame(inv.frames[2].fidx)
    /\ inv.frames[2].locals # <<>>

\* the Return the declared return types alone call for, given the stack at the
\* end of execute_fn: value i is the i-th value popped, with the i-th type
ShapedReturn(returns, stack) ==
    LET values == [i \in 1..Len(returns) |->
                       Value(returns[i], stack[Len(stack) - i + 1])]
    IN  CASE Len(returns) = 0 -> [shape |-> "Void", values |-> <<>>]
          [] Len(returns) = 1 -> [shape |-> "Single", values |-> values]
          [] OTHER -> [shape |-> "Multiple", values |-> values]

\* the stack of Vm v once execute_fn has popped the arguments of the Import
\* record function, called its callback and pushed what it returned
AfterCallback(function, v) ==
    LET a == PopEach(vms[v], function.func_type.params)
        r == CallClosure(import_fns[function.index + 1], a.values)
    IN  a.stack \o [i \in 1..Len(r.ret.values) |-> r.ret.values[i].value]

\* the run ends Ok in this step
ReturnsNow ==
    /\ Len(log') = Len(log) + 1
    /\ log'[Len(log')].outcome = "Ok"

\* C17: the Return of execute_fn depends on the declared return types only, for
\* Import and Definition records alike: Void for none, Single for one, Multiple
\* of length r for r >= 2, value i being the i-th value popped with the i-th
\* declared type, whatever shape and tags the callback's own Return had.
C17_ReturnShape ==
    [][ReturnsNow =>
        LET ret == log'[Len(log')].ret IN
        IF inv.active
        THEN ret = ShapedReturn(FunctionAt(Innermost.fidx).func_type.returns,
                                vms[inv.vm])
        ELSE LET function == GetFunction(bytecode, inv'.name)[1] IN
             ret = ShapedReturn(function.func_type.returns,
                                AfterCallback(function, inv'.vm))
    ]_vars

\* a run of an import declared () -> I32 whose callback returned Multiple, its
\* last value tagged I64: run returned Single, tagged I32
C17_Witness ==
    \E e \in LogEntries :
        /\ e.outcome = "Ok"
        /\ e.name = "g"
        /\ e.start_fns = <<Closure("pair")>>
        /\ e.ret = RetSingle(Value(I32, 2))

\* the runs logged before run k on the same Vm
EarlierRuns(k) == {j \in 1..(k - 1) : log[j].vm = log[k].vm}

\* the last of a nonempty set of positions
Latest(js) == CHOOSE j \in js : \A i \in js : i <= j

\* the stack a run on Vm v starts with, after the runs logged so far: empty on a
\* Vm that has not run, else what the last run on it left
CarriedStack(v, n) ==
    LET js == {j \in 1..n : log[j].vm = v} IN
    IF js = {} THEN <<>> ELSE log[Latest(js)].stack

\* C18: a Vm's stack is empty at creation and run resets it neither at entry nor
\* at exit: over any sequence of runs on one Vm, what a run leaves when it
\* returns (Ok or Err) is exactly what the next run on that Vm starts with.
C18_StackCarryOver ==
    /\ \A k \in 1..Len(log) : log[k].start_stack = CarriedStack(log[k].vm, k - 1)
    /\ \A v \in 1..Len(vms) :
           IF inv.active /\ inv.vm = v
           THEN inv.start_stack = CarriedStack(v, Len(log))
           ELSE vms[v] = CarriedStack(v, Len(log))

\* a run that returned Ok from the stack an earlier run on the same Vm left
C18_Witness ==
    \E k \in 1..Len(log) :
        /\ EarlierRuns(k) # {}
        /\ log[k].start_stack # <<>>
        /\ log[k].start_stack = log[Latest(EarlierRuns(k))].stack
        /\ log[k].outcome = "Ok"
        /\ log[k].stack # log[k].start_stack

\* the next step is a Call of an import with two or more declared parameters,
\* the caller having pushed a value for each
AtImportCall ==
    /\ status = "running"
    /\ inv.active
    /\ AtInstruction
    /\ CurrentInstruction.op = "Call"
    /\ IsSome(GetFunctionByIndex(bytecode, CurrentInstruction.arg))
    /\ LET callee == GetFunctionByIndex(bytecode, CurrentInstruction.arg)[1] IN
       /\ callee.kind = "Import"
       /\ callee.index < Len(import_fns)
       /\ Len(callee.func_type.params) >= 2
       /\ Len(vms[inv.vm]) - Innermost.floor >= Len(callee.func_type.params)

\* C19: when a caller pushes v1, ..., vn in that order and calls an import with
\* n >= 2 declared parameters, the callback receives [v1, ..., vn]: the first
\* value pushed is bound to the first parameter and tagged with its type.
C19_ArgumentOrder ==
    [][AtImportCall =>
        LET params == GetFunctionByIndex(bytecode, CurrentInstruction.arg)[1].func_type.params
            stack == vms[inv.vm]
            n == Len(params)
        IN  inv'.last_call.args =
                [i \in 1..n |-> Value(params[i], stack[Len(stack) - n + i])]
    ]_vars

\* the next step is a Call of an import with r >= 2 declared returns whose
\* callback answers with r values, so that the callee finishes with its r
\* results on top of the stack
AtMultiValueCall ==
    /\ status = "running"
    /\ inv.active
    /\ AtInstruction
    /\ CurrentInstruction.op = "Call"
    /\ IsSome(GetFunctionByIndex(bytecode, CurrentInstruction.arg))
    /\ LET callee == GetFunctionByIndex(bytecode, CurrentInstruction.arg)[1]
           a == PopEach(vms[inv.vm], callee.func_type.params)
       IN  /\ callee.kind = "Import"
           /\ callee.index < Len(import_fns)
           /\ Len(callee.func_type.returns) >= 2
           /\ a.ok
           /\ LET r == CallClosure(import_fns[callee.index + 1], a.values) IN
              r.ok /\ Len(r.ret.values) = Len(callee.func_type.returns)

\* C20: when a callee with r >= 2 declared returns is called through Call and
\* finishes with its r results on top of the stack, the caller's stack holds the
\* same r values in the same bottom-to-top order once the Call has completed.
C20_MultiValueOrder ==
    [][AtMultiValueCall =>
        vms'[inv.vm] =
            AfterCallback(GetFunctionByIndex(bytecode, CurrentInstruction.arg)[1], inv.vm)
    ]_vars

\* the key a registration is made under
KeyOf(r) == <<r.module, r.name>>

\* the position in registered (from 1) of the most recent registration of key k
MostRecent(k) ==
    CHOOSE i \in 1..Len(registered) :
        /\ KeyOf(registered[i]) = k
        /\ \A j \in (i + 1)..Len(registered) : KeyOf(registered[j]) # k

\* the Imported records the builder holds and the compiled module holds
ImportedRecords ==
    {builder.functions[i] : i \in {j \in 1..Len(builder.functions) :
                                       builder.functions[j].kind = "Import"}}
    \cup {bytecode.functions[i] : i \in {j \in 1..Len(bytecode.functions) :
                                           bytecode.functions[j].kind = "Import"}}

\* C21: after any sequence of add_import calls, every entry's slot is smaller
\* than the number of stored callbacks, the slot (and signature) of a key is the
\* one given by the most recent registration of that key, whose callback sits in
\* that slot, the callbacks are as many as the registrations performed, and the
\* slot of every Imported record of a compilation addresses a stored callback.
C21_RegistryConsistency ==
    /\ Len(import_fns) = Len(registered)
    /\ DOMAIN imports = {KeyOf(registered[i]) : i \in 1..Len(registered)}
    /\ \A k \in DOMAIN imports :
           /\ imports[k].index < Len(import_fns)
           /\ imports[k].index = MostRecent(k) - 1
           /\ imports[k].func_type = registered[MostRecent(k)].func_type
           /\ import_fns[imports[k].index + 1] = registered[MostRecent(k)].import_fn
    /\ \A f \in ImportedRecords :
           /\ f.index < Len(import_fns)
           /\ ~InvokeImport(import_fns, f.index, <<>>).panic

\* a key registered three times, the first two with other callbacks than the
\* last, and a module compiled against the registry whose Imported record
\* carries the slot of the last registration
C21_Witness ==
    /\ Len(registered) = 3
    /\ \A i \in 1..3 : KeyOf(registered[i]) = KeyOf(registered[1])
    /\ registered[3].import_fn # registered[1].import_fn
    /\ registered[3].import_fn # registered[2].import_fn
    /\ cresult = "Ok"
    /\ \E i \in 1..Len(bytecode.functions) :
           /\ bytecode.functions[i].kind = "Import"
           /\ bytecode.functions[i].index = 2

\* the function indices the body of function f (from 0) calls
CallTargets(f) ==
    LET body == bytecode.functions[f + 1].body IN
    {body[j].arg : j \in {k \in 1..Len(body) : body[k].op = "Call"}}
        \cap (0..(Len(bytecode.functions) - 1))

\* the functions reached from the set S through at most k further Call edges
RECURSIVE ReachedWithin(_, _)
ReachedWithin(S, k) ==
    IF k = 0 THEN S
    ELSE ReachedWithin(S \cup UNION {CallTargets(g) : g \in S}, k - 1)

\* no function of the compiled module is reachable from itself through Calls
CallsAcyclic ==
    \A f \in 0..(Len(bytecode.functions) - 1) :
        f \notin ReachedWithin(CallTargets(f), Len(bytecode.functions))

\* the run in progress has been left with a Return value or a failure
RunIsOver ==
    /\ ~inv.active
    /\ log # <<>>
    /\ log[Len(log)].outcome \in {"Ok", "Err", "Panic"}

\* a step of a run executes the instruction the innermost activation stands at
\* and moves it on by one, or enters a callee at its first instruction while
\* the caller waits at its Call, or leaves a body that is through and moves the
\* caller past its Call; no other activation moves
InSequence ==
    (inv.active /\ inv'.active) =>
        LET n == Len(inv.frames)
            m == Len(inv'.frames)
        IN  /\ m \in {n - 1, n, n + 1}
            /\ m >= 1
            /\ \A k \in 1..(m - 1) : k < n => inv'.frames[k].pc = inv.frames[k].pc
            /\ m = n =>
                   /\ inv.frames[n].pc <= Len(FunctionAt(inv.frames[n].fidx).body)
                   /\ inv'.frames[n].pc = inv.frames[n].pc + 1
            /\ m = n + 1 =>
                   /\ inv'.frames[n].pc = inv.frames[n].pc
                   /\ inv'.frames[m].pc = 1
            /\ m = n - 1 =>
                   /\ inv.frames[n].pc = Len(FunctionAt(inv.frames[n].fidx).body) + 1
                   /\ inv'.frames[m].pc = inv.frames[m].pc + 1

\* C22: with the Call edges of the compiled module acyclic (and callbacks that
\* return, as every callback here does), a run that has been entered is
\* eventually left with a Return value or a failure, its steps taking the
\* instructions of each activated body once and in sequence; a run that ends by
\* exhausting the call stack is a run of a module with a function reachable
\* from itself through Calls.
C22_Termination ==
    /\ (inv.active /\ CallsAcyclic) ~> RunIsOver
    /\ [][InSequence]_vars
    /\ [](\A k \in 1..Len(log) : log[k].outcome = "Exhausted" => ~CallsAcyclic)

\* a run of a module with acyclic Calls that went through a Call of an import
\* and has been left, one with a Return value and one with a failure
C22_Witness ==
    /\ CallsAcyclic
    /\ \E f \in 0..(Len(bytecode.functions) - 1) : CallTargets(f) # {}
    /\ Len(log) = 2
    /\ ~inv.active
    /\ inv.last_call.kind = "Import"
    /\ log[1].outcome = "Ok"
    /\ log[2].outcome = "Err"

====
